---- MODULE Spec2Model ----
(***************************************************************************)
(* Reservation service: the request handlers of routes/reservations.js     *)
(* over the Reservation store, the Joi create schema and the Table Info    *)
(* lookup.                                                                 *)
(*                                                                         *)
(* Time is counted in minutes since 00:00 of day 0 (the code counts        *)
(* milliseconds; every input of the handlers has minute precision).  A     *)
(* calendar date is its day number, a time of day "HH:MM" is <<h, m>>, and *)
(* a TIME column value "HH:MM:SS" is <<h, m, s>>.  The server clock is     *)
(* taken to run in UTC, so that the local-time parse of the cancel handler *)
(* and the UTC parse of the validator agree on midnight.                   *)
(*                                                                         *)
(* Each handler is cut at the awaits that touch the store: the steps of    *)
(* different requests interleave freely, as the event loop allows.  The    *)
(* Table Info lookup and the schema touch no state of the service, so they *)
(* belong to the step of the store access that follows or precedes them.   *)
(* Requests are anonymous: the handlers in flight form a bag.              *)
(*                                                                         *)
(* resp holds the response a step has just sent, together with the request *)
(* it answers; Deliver takes it off the wire before the next step of the    *)
(* service is looked at.  Deliver changes nothing of the service, so every  *)
(* interleaving of handler steps is still a behaviour.                      *)
(***************************************************************************)
EXTENDS Integers, Sequences, FiniteSets, Bags, TLC

\* ------------------------------------------------------------------ bounds
MaxInFlight == 2         \* handlers suspended at an await at the same time
MaxRes      == 2         \* rows the store may hold

\* --------------------------------------------------------- program constants
SlotHours   == 2         \* calculateEndTime: hours + 2
HoursPerDay == 24        \* calculateEndTime: % 24
MinPerHour  == 60        \* 1000 * 60 * 60 ms, in minutes
MinPerDay   == 1440      \* one calendar day of the Date arithmetic, in minutes
CancelWindowHours == 1   \* diffHours < 1
MinGuests   == 1         \* Joi guest_count min
MaxGuests   == 20        \* Joi guest_count max
MinPage     == 1         \* Joi page min
MinLimit    == 1         \* Joi limit min
MaxLimit    == 50        \* Joi limit max

\* ------------------------------------------------------------ input domains
Dates       == {1, 2}
TableIds    == {1, 2}
\* the (table_id, reservation_date, slot_start_time) create requests name:
\* one booking and three that differ from it in exactly one part
Bookings    == {<<1, 2, <<18, 0>>>>, <<1, 2, <<0, 30>>>>,
                <<2, 2, <<18, 0>>>>, <<1, 1, <<18, 0>>>>}
GuestCounts == {2, 3}
Customers   == {"Ann"}
Capacities  == {2}
Ids         == 1..(MaxRes + 1)
\* list queries: 0 and "" stand for an absent filter
DateFilters   == {0, 2}
TableFilters  == {0, 1}
StatusFilters == {"", "confirmed", "cancelled"}
Pages         == {1, 2}
Limits        == {1, 2}
\* the instants the clock is read at: day 1 00:00, day 1 23:30, day 1 23:31
\* and day 2 00:00
Instants    == {1440, 2850, 2851, 2880}

\* null, and the tables the Table Service may describe
NoTable == [found |-> FALSE, is_active |-> FALSE, seating_capacity |-> 0]
Tables  == [found : {TRUE}, is_active : BOOLEAN, seating_capacity : Capacities]
\* what the GET to the Table Service may do: fail, answer non-2xx, answer
NoLookup == [kind |-> "none", table |-> NoTable]
LookupOutcomes ==
    {[kind |-> "network_error", table |-> NoTable],
     [kind |-> "not_ok", table |-> NoTable]} \cup
    [kind : {"ok"}, table : Tables]

NoReq  == [kind |-> "none"]
NoRow  == [id |-> 0]
NoResp == [op |-> "none", req |-> NoReq, code |-> 0, error |-> "",
           body |-> NoRow, lookup |-> NoLookup]

VARIABLES
    store,      \* the reservations table: row i has id i
    now,        \* the clock
    inflight,   \* the bag of handlers suspended at an await
    resp        \* the response the latest step sent (code 0: it sent none)

vars == <<store, now, inflight, resp>>

\* ----------------------------------------------------------- pure helpers

\* calculateEndTime without the wrap at midnight
calculateEndTimeNoWrap(startTime) ==
    LET hours    == startTime[1]
        minutes  == startTime[2]
        endHours == hours + SlotHours
    IN  <<endHours, minutes>>

\* calculateEndTime: "HH:MM" -> "HH:MM", two hours later modulo 24 h
calculateEndTime(startTime) ==
    LET hours    == startTime[1]
        minutes  == startTime[2]
        endHours == (hours + SlotHours) % HoursPerDay
    IN  <<endHours, minutes>>

\* the store's TIME column: "HH:MM" is kept as "HH:MM:00"
ToTime(hhmm) == <<hhmm[1], hhmm[2], 0>>

\* String.substring(0, 5) of a TIME value: "HH:MM:SS" -> "HH:MM"
Substring5(t) == <<t[1], t[2]>>

\* Joi.date().iso(): a calendar date becomes the instant of its UTC midnight
ParseIsoDate(d) == d * MinPerDay

\* the store's DATEONLY column: an instant is kept as its calendar day
ToDateOnly(instant) == instant \div MinPerDay

\* new Date(`${reservation_date}T${slot_start_time}`)
ParseDateTime(d, t) == d * MinPerDay + t[1] * MinPerHour + t[2]

\* Joi.date().min('now'): the parsed date is not before the clock
DateMinNow(d, clock) == ParseIsoDate(d) >= clock

\* createReservationSchema.validate: TRUE when the body passes
SchemaAccepts(body, clock) ==
    /\ body.fields_ok
    /\ body.guest_count >= MinGuests
    /\ body.guest_count <= MaxGuests
    /\ DateMinNow(body.reservation_date, clock)

\* FindConfirmed comparing the request's "HH:MM" with the stored "HH:MM:SS"
\* as strings
FindConfirmedRawTime(rows, tableId, dateOnly, startTime) ==
    {i \in 1..Len(rows) :
        /\ rows[i].table_id = tableId
        /\ rows[i].reservation_date = dateOnly
        /\ rows[i].slot_start_time = startTime
        /\ rows[i].status = "confirmed"}

\* FindConfirmed without the status filter: a cancelled row matches too
FindAnyStatus(rows, tableId, dateOnly, startTime) ==
    {i \in 1..Len(rows) :
        /\ rows[i].table_id = tableId
        /\ rows[i].reservation_date = dateOnly
        /\ rows[i].slot_start_time = ToTime(startTime)}

\* Reservation.findOne({where: {table_id, reservation_date, slot_start_time,
\* status: 'confirmed'}}): the ids of the matching rows
FindConfirmed(rows, tableId, dateOnly, startTime) ==
    {i \in 1..Len(rows) :
        /\ rows[i].table_id = tableId
        /\ rows[i].reservation_date = dateOnly
        /\ rows[i].slot_start_time = ToTime(startTime)
        /\ rows[i].status = "confirmed"}

\* fetchTableInfo without the catch: a failed fetch throws into the handler
fetchTableInfoNoCatch(outcome) ==
    IF outcome.kind = "ok"
      THEN [raised |-> FALSE, table |-> outcome.table]
      ELSE [raised |-> outcome.kind = "network_error", table |-> NoTable]

\* fetchTableInfo: null when the fetch throws or the response is not ok,
\* data.table otherwise; raised tells whether an exception leaves it
fetchTableInfo(outcome) ==
    IF outcome.kind = "ok"
      THEN [raised |-> FALSE, table |-> outcome.table]
      ELSE [raised |-> FALSE, table |-> NoTable]

\* ExceedsCapacity with >=
ExceedsCapacityOrEqual(guests, table) == guests >= table.seating_capacity

\* guest_count > table.seating_capacity
ExceedsCapacity(guests, table) == guests > table.seating_capacity

\* the row Reservation.create writes: the validated body (customer_name
\* stands for the fields the handler only passes on: customer_name,
\* customer_email, customer_phone, special_requests), the end time and the
\* status.  The created_at / updated_at columns that the store maintains by
\* itself are not part of the row.
NewRow(id, body) ==
    [id |-> id,
     table_id |-> body.table_id,
     customer_name |-> body.customer_name,
     guest_count |-> body.guest_count,
     reservation_date |-> ToDateOnly(ParseIsoDate(body.reservation_date)),
     slot_start_time |-> ToTime(body.slot_start_time),
     slot_end_time |-> ToTime(calculateEndTime(body.slot_start_time)),
     status |-> "confirmed"]

Handler(op, pc, r, t, row) ==
    [op |-> op, pc |-> pc, req |-> r, tbl |-> t, row |-> row]

Suspend(h) == inflight' = inflight (+) SetToBag({h})
Resume(h, g) == inflight' = (inflight (-) SetToBag({h})) (+) SetToBag({g})
Finish(h) == inflight' = inflight (-) SetToBag({h})

InFlightCreates ==
    LET hs == BagToSet(inflight)
        n[S \in SUBSET hs] ==
            IF S = {} THEN 0
            ELSE LET h == CHOOSE x \in S : TRUE
                 IN  (IF h.op = "create" THEN CopiesIn(h, inflight) ELSE 0)
                     + n[S \ {h}]
    IN  n[hs]

Respond(op, r, code, error, body, lookup) ==
    resp' = [op |-> op, req |-> r, code |-> code, error |-> error,
             body |-> body, lookup |-> lookup]

Silent == resp' = NoResp

\* no response is on the wire
Quiet == resp.code = 0

\* ------------------------------------------------------------------- Init
Init ==
    /\ store = <<>>
    /\ now \in Instants
    /\ inflight = EmptyBag
    /\ resp = NoResp

\* the clock moves on
Tick ==
    /\ Quiet
    /\ \E t \in Instants : t > now /\ now' = t
    /\ Silent
    /\ UNCHANGED <<store, inflight>>

\* ------------------------------------------------------- POST /reservations
\* CreateBeginFrom with the capacity check before the is_active check
CreateBeginFromCapacityFirst(bookings, maxRows) ==
    /\ Quiet
    /\ \E b \in bookings, g \in GuestCounts, c \in Customers, ok \in BOOLEAN,
          o \in LookupOutcomes :
        LET body == [kind |-> "create", table_id |-> b[1], customer_name |-> c,
                     guest_count |-> g,
                     reservation_date |-> b[2], slot_start_time |-> b[3],
                     fields_ok |-> ok]
            fetched == fetchTableInfo(o)
            table == fetched.table
        IN  /\ IF ~SchemaAccepts(body, now)
                 THEN /\ o = CHOOSE x \in LookupOutcomes : TRUE
                      /\ Respond("create", body, 400, "Validation", NoRow, NoLookup)
                      /\ UNCHANGED inflight
               ELSE IF fetched.raised
                 THEN /\ Respond("create", body, 500, "Internal", NoRow, o)
                      /\ UNCHANGED inflight
               ELSE IF ~table.found
                 THEN /\ Respond("create", body, 400, "TableNotFound", NoRow, o)
                      /\ UNCHANGED inflight
               ELSE IF ExceedsCapacity(body.guest_count, table)
                 THEN /\ Respond("create", body, 400, "CapacityExceeded", NoRow, o)
                      /\ UNCHANGED inflight
               ELSE IF ~table.is_active
                 THEN /\ Respond("create", body, 400, "TableInactive", NoRow, o)
                      /\ UNCHANGED inflight
               ELSE /\ Len(store) + InFlightCreates < maxRows
                    /\ BagCardinality(inflight) < MaxInFlight
                    /\ Silent
                    /\ Suspend(Handler("create", "find", body, table, NoRow))
            /\ UNCHANGED <<store, now>>

\* the request arrives: schema, Table Info lookup, table checks
CreateBeginFrom(bookings, maxRows) ==
    /\ Quiet
    /\ \E b \in bookings, g \in GuestCounts, c \in Customers, ok \in BOOLEAN,
          o \in LookupOutcomes :
        LET body == [kind |-> "create", table_id |-> b[1], customer_name |-> c,
                     guest_count |-> g,
                     reservation_date |-> b[2], slot_start_time |-> b[3],
                     fields_ok |-> ok]
            fetched == fetchTableInfo(o)
            table == fetched.table
        IN  /\ IF ~SchemaAccepts(body, now)
                 THEN /\ o = CHOOSE x \in LookupOutcomes : TRUE
                      /\ Respond("create", body, 400, "Validation", NoRow, NoLookup)
                      /\ UNCHANGED inflight
               ELSE IF fetched.raised
                 THEN /\ Respond("create", body, 500, "Internal", NoRow, o)
                      /\ UNCHANGED inflight
               ELSE IF ~table.found
                 THEN /\ Respond("create", body, 400, "TableNotFound", NoRow, o)
                      /\ UNCHANGED inflight
               ELSE IF ~table.is_active
                 THEN /\ Respond("create", body, 400, "TableInactive", NoRow, o)
                      /\ UNCHANGED inflight
               ELSE IF ExceedsCapacity(body.guest_count, table)
                 THEN /\ Respond("create", body, 400, "CapacityExceeded", NoRow, o)
                      /\ UNCHANGED inflight
               ELSE /\ Len(store) + InFlightCreates < maxRows
                    /\ BagCardinality(inflight) < MaxInFlight
                    /\ Silent
                    /\ Suspend(Handler("create", "find", body, table, NoRow))
            /\ UNCHANGED <<store, now>>

CreateBegin == CreateBeginFrom(Bookings, MaxRes)

\* Reservation.findOne for a confirmed row of the same table, date and start
CreateFindOne(h) ==
    /\ Quiet
    /\ h.op = "create" /\ h.pc = "find"
    /\ LET existing == FindConfirmed(store, h.req.table_id,
                          ToDateOnly(ParseIsoDate(h.req.reservation_date)),
                          h.req.slot_start_time)
       IN  IF existing # {}
             THEN /\ Respond("create", h.req, 409, "DoubleBooking", NoRow,
                               [kind |-> "ok", table |-> h.tbl])
                  /\ Finish(h)
             ELSE /\ Silent
                  /\ Resume(h, [h EXCEPT !.pc = "insert"])
    /\ UNCHANGED <<store, now>>

\* Reservation.create: the table has no uniqueness constraint
CreateInsert(h) ==
    /\ Quiet
    /\ h.op = "create" /\ h.pc = "insert"
    /\ LET row == NewRow(Len(store) + 1, h.req)
       IN  /\ store' = Append(store, row)
           /\ Respond("create", h.req, 201, "", row, [kind |-> "ok", table |-> h.tbl])
    /\ Finish(h)
    /\ UNCHANGED now

\* ------------------------------------------------ PATCH /reservations/:id/cancel
\* InsideCancelWindow with diffHours <= 1
InsideCancelWindowInclusive(row, clock) ==
    LET reservationDateTime ==
            ParseDateTime(row.reservation_date, Substring5(row.slot_start_time))
        diffMin == reservationDateTime - clock
    IN  diffMin <= CancelWindowHours * MinPerHour

\* diffHours < 1, with diffHours = diffMs / (1000 * 60 * 60)
InsideCancelWindow(row, clock) ==
    LET reservationDateTime ==
            ParseDateTime(row.reservation_date, Substring5(row.slot_start_time))
        diffMin == reservationDateTime - clock
    IN  diffMin < CancelWindowHours * MinPerHour

\* CancelBegin with the 1-hour rule checked before the status guard
CancelBeginWindowFirst ==
    /\ Quiet
    /\ \E id \in Ids :
        LET r == [kind |-> "cancel", id |-> id]
        IN  /\ IF id > Len(store)
                 THEN /\ Respond("cancel", r, 404, "NotFound", NoRow, NoLookup)
                      /\ UNCHANGED inflight
               ELSE IF InsideCancelWindow(store[id], now)
                 THEN /\ Respond("cancel", r, 400, "CancellationWindow", NoRow, NoLookup)
                      /\ UNCHANGED inflight
               ELSE IF store[id].status = "cancelled"
                 THEN /\ Respond("cancel", r, 400, "AlreadyCancelled", NoRow, NoLookup)
                      /\ UNCHANGED inflight
               ELSE /\ BagCardinality(inflight) < MaxInFlight
                    /\ Silent
                    /\ Suspend(Handler("cancel", "save", r, NoTable,
                                       [store[id] EXCEPT !.status = "cancelled"]))
            /\ UNCHANGED <<store, now>>

\* Reservation.findByPk, the status guard and the 1-hour rule; the handler
\* then sets status on its instance and awaits save()
CancelBegin ==
    /\ Quiet
    /\ \E id \in Ids :
        LET r == [kind |-> "cancel", id |-> id]
        IN  /\ IF id > Len(store)
                 THEN /\ Respond("cancel", r, 404, "NotFound", NoRow, NoLookup)
                      /\ UNCHANGED inflight
               ELSE IF store[id].status = "cancelled"
                 THEN /\ Respond("cancel", r, 400, "AlreadyCancelled", NoRow, NoLookup)
                      /\ UNCHANGED inflight
               ELSE IF InsideCancelWindow(store[id], now)
                 THEN /\ Respond("cancel", r, 400, "CancellationWindow", NoRow, NoLookup)
                      /\ UNCHANGED inflight
               ELSE /\ BagCardinality(inflight) < MaxInFlight
                    /\ Silent
                    /\ Suspend(Handler("cancel", "save", r, NoTable,
                                       [store[id] EXCEPT !.status = "cancelled"]))
            /\ UNCHANGED <<store, now>>

\* CancelSave flipping the stored status instead of setting it
CancelSaveToggle(h) ==
    /\ Quiet
    /\ h.op = "cancel" /\ h.pc = "save"
    /\ store' = [store EXCEPT ![h.row.id].status =
                     IF @ = "confirmed" THEN "cancelled" ELSE "confirmed"]
    /\ Respond("cancel", h.req, 200, "", h.row, NoLookup)
    /\ Finish(h)
    /\ UNCHANGED now

\* CancelSave as an UPDATE without the WHERE id: every row is cancelled
CancelSaveAllRows(h) ==
    /\ Quiet
    /\ h.op = "cancel" /\ h.pc = "save"
    /\ store' = [i \in 1..Len(store) |-> [store[i] EXCEPT !.status = h.row.status]]
    /\ Respond("cancel", h.req, 200, "", h.row, NoLookup)
    /\ Finish(h)
    /\ UNCHANGED now

\* reservation.save(): UPDATE ... SET status WHERE id; save() writes the
\* changed attribute only
CancelSave(h) ==
    /\ Quiet
    /\ h.op = "cancel" /\ h.pc = "save"
    /\ store' = [store EXCEPT ![h.row.id].status = h.row.status]
    /\ Respond("cancel", h.req, 200, "", h.row, NoLookup)
    /\ Finish(h)
    /\ UNCHANGED now

\* ------------------------------------------------------ GET /reservations/:id
\* table || { id, info: 'Table details unavailable' }
TableOrPlaceholder(table, tableId) ==
    IF table.found THEN table
    ELSE [id |-> tableId, info |-> "Table details unavailable"]

\* Reservation.findByPk, then the best-effort Table Info lookup
GetById ==
    /\ Quiet
    /\ \E id \in Ids, o \in LookupOutcomes :
        LET r == [kind |-> "get", id |-> id]
            fetched == fetchTableInfo(o)
        IN  IF id > Len(store)
              THEN /\ o = CHOOSE x \in LookupOutcomes : TRUE
                   /\ Respond("get", r, 404, "NotFound", NoRow, NoLookup)
            ELSE IF fetched.raised
              THEN Respond("get", r, 500, "Internal", NoRow, o)
            ELSE Respond("get", r, 200, "",
                         [reservation |-> store[id],
                          table |-> TableOrPlaceholder(fetched.table,
                                                       store[id].table_id)], o)
    /\ UNCHANGED <<store, now, inflight>>

\* ------------------------------------------- GET /tables/:tableId/availability
allSlots == <<<<10, 0>>, <<12, 0>>, <<14, 0>>, <<16, 0>>, <<18, 0>>, <<20, 0>>>>

\* bookedSlotTimes without the substring(0, 5)
bookedSlotTimesRaw(rows, tableId, date) ==
    {rows[i].slot_start_time :
        i \in {j \in 1..Len(rows) : /\ rows[j].table_id = tableId
                                    /\ rows[j].reservation_date = date
                                    /\ rows[j].status = "confirmed"}}

\* Reservation.findAll({where: {table_id, reservation_date, status: 'confirmed'}})
\* mapped to slot_start_time.substring(0, 5)
bookedSlotTimes(rows, tableId, date) ==
    {Substring5(rows[i].slot_start_time) :
        i \in {j \in 1..Len(rows) : /\ rows[j].table_id = tableId
                                    /\ rows[j].reservation_date = date
                                    /\ rows[j].status = "confirmed"}}

\* allSlots.map(slot => ({start_time, end_time, available}))
Slots(rows, tableId, date) ==
    [k \in 1..Len(allSlots) |->
        [start_time |-> allSlots[k],
         end_time |-> calculateEndTime(allSlots[k]),
         available |-> allSlots[k] \notin bookedSlotTimes(rows, tableId, date)]]

\* date 0 stands for a request without the date parameter
Availability ==
    /\ Quiet
    /\ \E tableId \in TableIds, date \in Dates \cup {0} :
        LET r == [kind |-> "availability", table_id |-> tableId, date |-> date]
        IN  IF date = 0
              THEN Respond("availability", r, 400, "MissingDate", NoRow, NoLookup)
              ELSE Respond("availability", r, 200, "", Slots(store, tableId, date),
                           NoLookup)
    /\ UNCHANGED <<store, now, inflight>>

\* ---------------------------------------------------------- GET /reservations
\* queryReservationsSchema.validate
QueryAccepts(q) ==
    /\ q.page >= MinPage
    /\ q.limit >= MinLimit
    /\ q.limit <= MaxLimit

\* the where clause built from the filters that are present
Matches(row, q) ==
    /\ q.date # 0 => row.reservation_date = ToDateOnly(ParseIsoDate(q.date))
    /\ q.table_id # 0 => row.table_id = q.table_id
    /\ q.status # "" => row.status = q.status

\* ORDER BY reservation_date ASC, slot_start_time ASC
TimeBefore(a, b) ==
    \/ a[1] < b[1]
    \/ a[1] = b[1] /\ a[2] < b[2]
    \/ a[1] = b[1] /\ a[2] = b[2] /\ a[3] < b[3]

OrderedBefore(r1, r2) ==
    \/ r1.reservation_date < r2.reservation_date
    \/ /\ r1.reservation_date = r2.reservation_date
       /\ TimeBefore(r1.slot_start_time, r2.slot_start_time)

\* the orders the store may return the matching rows in: rows that tie on
\* the two sort keys come in any order
Orderings(rows, q) ==
    LET ids == {i \in 1..Len(rows) : Matches(rows[i], q)}
        n   == Cardinality(ids)
    IN  {p \in [1..n -> ids] :
            /\ \A a, b \in 1..n : a # b => p[a] # p[b]
            /\ \A a, b \in 1..n : a < b => ~OrderedBefore(rows[p[b]], rows[p[a]])}

\* PageOf with OFFSET page * limit
PageOfNextPage(p, q) ==
    LET offset == q.page * q.limit
        n == Len(p)
        last == IF offset + q.limit < n THEN offset + q.limit ELSE n
    IN  [k \in 1..(IF last > offset THEN last - offset ELSE 0) |-> p[offset + k]]

\* LIMIT limit OFFSET (page - 1) * limit
PageOf(p, q) ==
    LET offset == (q.page - 1) * q.limit
        n == Len(p)
        last == IF offset + q.limit < n THEN offset + q.limit ELSE n
    IN  [k \in 1..(IF last > offset THEN last - offset ELSE 0) |-> p[offset + k]]

\* Math.ceil(count / limit)
TotalPages(count, limit) == (count + limit - 1) \div limit

ListReservations ==
    /\ Quiet
    /\ \E d \in DateFilters, t \in TableFilters, st \in StatusFilters,
          pg \in Pages, lim \in Limits :
        LET q == [kind |-> "list", date |-> d, table_id |-> t, status |-> st,
                  page |-> pg, limit |-> lim]
        IN  IF ~QueryAccepts(q)
              THEN Respond("list", q, 400, "Validation", NoRow, NoLookup)
              ELSE \E p \in Orderings(store, q) :
                     LET ids == PageOf(p, q)
                     IN  Respond("list", q, 200, "",
                                 [reservations |-> [k \in 1..Len(ids) |-> store[ids[k]]],
                                  total |-> Len(p),
                                  page |-> q.page,
                                  totalPages |-> TotalPages(Len(p), q.limit)],
                                 NoLookup)
    /\ UNCHANGED <<store, now, inflight>>

\* the response leaves the service
Deliver ==
    /\ ~Quiet
    /\ Silent
    /\ UNCHANGED <<store, now, inflight>>

Next ==
    \/ Deliver
    \/ Tick
    \/ CreateBegin
    \/ \E h \in BagToSet(inflight) : CreateFindOne(h)
    \/ \E h \in BagToSet(inflight) : CreateInsert(h)
    \/ CancelBegin
    \/ \E h \in BagToSet(inflight) : CancelSave(h)
    \/ GetById
    \/ ListReservations
    \/ Availability

Spec == Init /\ [][Next]_vars

\* ------------------------------------------------- every HH:MM start time
\* One create request, sent to the empty service, its start drawn from all
\* the times the schema's pattern /^([01]\d|2[0-3]):([0-5]\d)$/ admits; the
\* reservation is created, then cancelled.
AllTimeBookings == {<<1, 2, <<hh, mm>>>> : hh \in 0..23, mm \in 0..59}

CreateBeginAnyTime ==
    /\ store = <<>>
    /\ inflight = EmptyBag
    /\ CreateBeginFrom(AllTimeBookings, MaxRes)

NextAllTimes ==
    \/ Deliver
    \/ Tick
    \/ CreateBeginAnyTime
    \/ \E h \in BagToSet(inflight) : CreateFindOne(h)
    \/ \E h \in BagToSet(inflight) : CreateInsert(h)
    \/ CancelBegin
    \/ \E h \in BagToSet(inflight) : CancelSave(h)

SpecAllTimes == Init /\ [][NextAllTimes]_vars

\* ------------------------------------------------ start times off the grid
\* Create requests for one table and date whose starts are an hour apart:
\* 18:00 is one of allSlots, 19:00 is not; the schema's pattern admits both.
OffGridBookings == {<<1, 2, <<18, 0>>>>, <<1, 2, <<19, 0>>>>}

CreateBeginOffGrid == CreateBeginFrom(OffGridBookings, MaxRes)

NextOffGrid ==
    \/ Deliver
    \/ Tick
    \/ CreateBeginOffGrid
    \/ \E h \in BagToSet(inflight) : CreateFindOne(h)
    \/ \E h \in BagToSet(inflight) : CreateInsert(h)
    \/ CancelBegin
    \/ \E h \in BagToSet(inflight) : CancelSave(h)
    \/ Availability

SpecOffGrid == Init /\ [][NextOffGrid]_vars

\* ================================================================ properties

\* the (table, date, "HH:MM" start) of a stored row, and of a create body
RowSlot(row) ==
    <<row.table_id, row.reservation_date,
      <<row.slot_start_time[1], row.slot_start_time[2]>>>>
BodySlot(body) == <<body.table_id, body.reservation_date, body.slot_start_time>>

ConfirmedRows(rows, slot) ==
    {i \in 1..Len(rows) : rows[i].status = "confirmed" /\ RowSlot(rows[i]) = slot}

\* a handler that took the step: one copy fewer of it is suspended
Stepped(h) == CopiesIn(h, inflight') < CopiesIn(h, inflight)
\* a handler the step suspended
Started(h) == CopiesIn(h, inflight') > CopiesIn(h, inflight)

\* C1: in every reachable state, under any interleaving of create requests,
\* at most one confirmed reservation exists per (table_id, reservation_date,
\* slot_start_time).
NoDoubleBooking ==
    \A i, j \in 1..Len(store) :
        (i # j /\ store[i].status = "confirmed" /\ store[j].status = "confirmed")
            => RowSlot(store[i]) # RowSlot(store[j])

\* C2: a create whose conflict read comes after a create of the same
\* (table_id, reservation_date, slot_start_time) has succeeded and is still
\* confirmed is answered 409 and writes nothing; it is not left in flight.
SecondCreateRejected ==
    [][\A h \in BagToSet(inflight) :
          (/\ h.op = "create" /\ h.pc = "find"
           /\ Stepped(h)
           /\ ConfirmedRows(store, BodySlot(h.req)) # {})
          => /\ resp'.op = "create"
             /\ resp'.code = 409
             /\ resp'.req = h.req
             /\ store' = store
             /\ inflight' = inflight (-) SetToBag({h})]_vars

\* a 409 is on the wire for a slot that one confirmed row holds
SecondCreateRejectedWitness ==
    /\ resp.op = "create"
    /\ resp.code = 409
    /\ Cardinality(ConfirmedRows(store, BodySlot(resp.req))) = 1
    /\ Len(store) = 1

\* C3: rows are created confirmed, a status is confirmed or cancelled, and a
\* cancelled row stays cancelled in every later state.
StatusOnlyConfirmedToCancelled ==
    [][/\ Len(store') >= Len(store)
       /\ \A i \in 1..Len(store') :
            /\ store'[i].status \in {"confirmed", "cancelled"}
            /\ i > Len(store) => store'[i].status = "confirmed"
            /\ (i <= Len(store) /\ store[i].status = "cancelled")
                  => store'[i].status = "cancelled"]_vars

\* a cancelled row together with a later confirmed row of the same slot
StatusWitness ==
    \E i, j \in 1..Len(store) :
        /\ i < j
        /\ store[i].status = "cancelled"
        /\ store[j].status = "confirmed"
        /\ RowSlot(store[i]) = RowSlot(store[j])

\* minutes from the clock to the row's reservation_date + slot_start_time
MinutesToSlot(row, clock) ==
    row.reservation_date * 1440 + row.slot_start_time[1] * 60
        + row.slot_start_time[2] - clock

\* the step answers a cancel request that has just arrived
CancelAnswered == resp'.op = "cancel" /\ inflight' = inflight

\* C4: a cancel request on an existing confirmed reservation is accepted
\* exactly when the slot start is at least 60 minutes after the clock at the
\* request (60 itself included); otherwise it is answered 400 window
\* violation and the store is unchanged; an accepted cancel ends in 200 with
\* the row cancelled.
CancelWindowRule ==
    [][/\ \A id \in 1..Len(store) :
            (CancelAnswered /\ resp'.req.id = id /\ store[id].status = "confirmed")
               => /\ resp'.code = 400
                  /\ resp'.error = "CancellationWindow"
                  /\ MinutesToSlot(store[id], now) < 60
                  /\ store' = store
       /\ \A h \in BagToSet(inflight') :
            (h.op = "cancel" /\ Started(h))
               => /\ h.req.id \in 1..Len(store)
                  /\ MinutesToSlot(store[h.req.id], now) >= 60
                  /\ store' = store
       /\ (resp'.op = "cancel" /\ resp'.error = "CancellationWindow")
               => /\ resp'.req.id \in 1..Len(store)
                  /\ store[resp'.req.id].status = "confirmed"
       /\ (resp'.op = "cancel" /\ resp'.code = 200)
               => /\ store'[resp'.req.id].status = "cancelled"
                  /\ resp'.body.status = "cancelled"]_vars

\* a cancel asked exactly one hour before the slot start has succeeded
CancelWindowWitness ==
    /\ resp.op = "cancel"
    /\ resp.code = 200
    /\ store[resp.req.id].status = "cancelled"
    /\ MinutesToSlot(store[resp.req.id], now) = 60

\* a cancel of a reservation created at this instant is refused
CancelJustCreatedRefused ==
    /\ resp.op = "cancel"
    /\ resp.error = "CancellationWindow"
    /\ now = 2851
    /\ store[resp.req.id].reservation_date * 1440 >= now

\* C5: a cancel request that finds its reservation already cancelled is
\* answered 400 'already cancelled' whatever the time to the slot start; the
\* store is unchanged and no save follows.
AlreadyCancelledRejected ==
    [][/\ \A id \in 1..Len(store) :
            (/\ store[id].status = "cancelled"
             /\ resp'.op = "cancel" /\ resp'.req.id = id
             /\ \A h \in BagToSet(inflight) : ~Stepped(h))
               => /\ resp'.code = 400
                  /\ resp'.error = "AlreadyCancelled"
                  /\ store' = store
                  /\ inflight' = inflight
       /\ \A h \in BagToSet(inflight') :
            (h.op = "cancel" /\ Started(h))
               => store[h.req.id].status # "cancelled"]_vars

\* 'already cancelled' is answered less than an hour before the slot start
AlreadyCancelledWitness ==
    /\ resp.op = "cancel"
    /\ resp.error = "AlreadyCancelled"
    /\ store[resp.req.id].status = "cancelled"
    /\ MinutesToSlot(store[resp.req.id], now) < 60

\* C6: a valid create against a found, active table passes the capacity
\* check exactly when guest_count <= seating_capacity: a CapacityExceeded
\* answer has guest_count > capacity and stores nothing, and every create
\* that went on to the conflict read, to 409 or to 201 has
\* guest_count <= capacity, the stored row included.
CapacityRule ==
    [][/\ (resp'.op = "create" /\ resp'.error = "CapacityExceeded")
            => /\ resp'.code = 400
               /\ resp'.req.guest_count > resp'.lookup.table.seating_capacity
               /\ store' = store
               /\ inflight' = inflight
       /\ (resp'.op = "create" /\ resp'.lookup.kind = "ok"
              /\ resp'.lookup.table.is_active
              /\ resp'.req.guest_count > resp'.lookup.table.seating_capacity)
            => resp'.error = "CapacityExceeded"
       /\ (resp'.op = "create" /\ resp'.lookup.kind = "ok"
              /\ resp'.lookup.table.is_active
              /\ resp'.req.guest_count <= resp'.lookup.table.seating_capacity)
            => resp'.code \in {201, 409}
       /\ \A h \in BagToSet(inflight') :
            h.op = "create" => h.req.guest_count <= h.tbl.seating_capacity
       /\ \A h \in BagToSet(inflight) :
            (h.op = "create" /\ Stepped(h)
               /\ ConfirmedRows(store, BodySlot(h.req)) = {})
            => \/ h.pc = "find" /\ CopiesIn([h EXCEPT !.pc = "insert"], inflight') > 0
               \/ h.pc = "insert" /\ resp'.code = 201 /\ resp'.req = h.req
       /\ (resp'.op = "create" /\ resp'.code = 201)
            => /\ store' = Append(store, resp'.body)
               /\ resp'.body.guest_count = resp'.req.guest_count
               /\ resp'.body.guest_count <= resp'.lookup.table.seating_capacity]_vars

\* a create with guest_count equal to the capacity has been stored
CapacityWitness ==
    /\ resp.op = "create"
    /\ resp.code = 201
    /\ resp.req.guest_count = resp.lookup.table.seating_capacity
    /\ store[Len(store)] = resp.body

\* C7: the schema accepts a reservation_date of today or later at any time
\* of day, and rejects one before today.
TodayOrFutureAccepted ==
    (/\ resp.op = "create"
     /\ resp.req.fields_ok
     /\ resp.req.guest_count \in 1..20)
        => (resp.error = "Validation" <=> resp.req.reservation_date < now \div 1440)

\* C8: every stored row has slot_end_time two hours after slot_start_time
\* modulo 24 hours, minutes unchanged, for every HH:MM start; no step (cancel
\* included) changes a row's end time.
EndTimeRule ==
    [][\A i \in 1..Len(store') :
          LET row == store'[i]
              hh  == row.slot_start_time[1]
              mm  == row.slot_start_time[2]
          IN  /\ row.slot_end_time = <<IF hh >= 22 THEN hh - 22 ELSE hh + 2, mm, 0>>
              /\ i <= Len(store) => row.slot_end_time = store[i].slot_end_time]_vars

\* the 23:30 reservation ends at 01:30, and still does once cancelled
EndTimeWitness ==
    /\ Len(store) = 1
    /\ store[1].slot_start_time = <<23, 30, 0>>
    /\ store[1].slot_end_time = <<1, 30, 0>>
    /\ store[1].status = "cancelled"

\* C9: availability answers the six slots 10:00 .. 20:00 in order, each
\* ending two hours after its start, and a slot is unavailable exactly when
\* a confirmed row of that table and date starts at it.
AvailabilityRule ==
    (resp.op = "availability" /\ resp.code = 200)
        => /\ Len(resp.body) = 6
           /\ \A k \in 1..6 :
                /\ resp.body[k].start_time = <<8 + 2 * k, 0>>
                /\ resp.body[k].end_time = <<10 + 2 * k, 0>>
                /\ resp.body[k].available
                     <=> ConfirmedRows(store, <<resp.req.table_id, resp.req.date,
                                                <<8 + 2 * k, 0>>>>) = {}

\* 18:00 is reported taken and the five other slots free, although the
\* table has a second confirmed row that day, starting off the slot grid
AvailabilityWitness ==
    /\ resp.op = "availability"
    /\ resp.code = 200
    /\ \A k \in 1..6 : resp.body[k].available <=> k # 5
    /\ ConfirmedRows(store, <<resp.req.table_id, resp.req.date, <<0, 30>>>>) # {}

\* all six slots are free although a cancelled 18:00 row of the table and
\* date is stored
AvailabilityCancelledWitness ==
    /\ resp.op = "availability"
    /\ resp.code = 200
    /\ \A k \in 1..6 : resp.body[k].available
    /\ \E i \in 1..Len(store) :
         /\ store[i].status = "cancelled"
         /\ RowSlot(store[i]) = <<resp.req.table_id, resp.req.date, <<18, 0>>>>

\* C10: a Table Info lookup that fails (network error or non-2xx answer) is
\* never answered 500: a create is answered 400 table not found and writes
\* nothing, a get-by-id is answered 200 with the stored reservation and the
\* placeholder table.
LookupFailureRule ==
    [][(resp'.lookup.kind \in {"network_error", "not_ok"})
          => /\ resp'.code # 500
             /\ store' = store
             /\ inflight' = inflight
             /\ resp'.op \in {"create", "get"}
             /\ resp'.op = "create"
                  => resp'.code = 400 /\ resp'.error = "TableNotFound"
             /\ resp'.op = "get"
                  => /\ resp'.code = 200
                     /\ resp'.req.id \in 1..Len(store)
                     /\ resp'.body.reservation = store[resp'.req.id]
                     /\ resp'.body.table =
                          [id |-> store[resp'.req.id].table_id,
                           info |-> "Table details unavailable"]]_vars

\* a reservation is returned with the placeholder after a network error
LookupFailureWitness ==
    /\ resp.op = "get"
    /\ resp.code = 200
    /\ resp.lookup.kind = "network_error"
    /\ resp.body.reservation = store[resp.req.id]
    /\ resp.body.table.info = "Table details unavailable"

\* a create is refused as table not found after a non-2xx answer
LookupFailureCreateWitness ==
    /\ resp.op = "create"
    /\ resp.error = "TableNotFound"
    /\ resp.lookup.kind = "not_ok"

\* C11: create applies its checks in the order schema, table found, table
\* active, capacity, conflict, and answers with the first one that fails: a
\* Validation answer is sent without any table lookup and every other answer
\* after one; a failed lookup gives TableNotFound; an inactive table gives
\* TableInactive whatever the guest count; too many guests on an active
\* table give 400 CapacityExceeded even when the slot is already booked; 409
\* is sent only when all earlier checks passed; and every create answer
\* other than 201 leaves the store unchanged.
CreateCheckOrder ==
    [][/\ resp'.op = "create" =>
            LET r == resp'.req
                l == resp'.lookup
                t == l.table
            IN  /\ ~r.fields_ok => resp'.error = "Validation"
                /\ (inflight' = inflight
                        /\ r.reservation_date * 1440 + 1439 < now)
                      => resp'.error = "Validation"
                /\ resp'.error = "Validation"
                      <=> l.kind = "none"
                /\ resp'.error = "Validation" => resp'.code = 400
                /\ l.kind \in {"network_error", "not_ok"}
                      => resp'.code = 400 /\ resp'.error = "TableNotFound"
                /\ (l.kind = "ok" /\ ~t.is_active)
                      => resp'.code = 400 /\ resp'.error = "TableInactive"
                /\ (l.kind = "ok" /\ t.is_active
                        /\ r.guest_count > t.seating_capacity)
                      => resp'.code = 400 /\ resp'.error = "CapacityExceeded"
                /\ resp'.code = 409
                      => /\ l.kind = "ok" /\ t.is_active
                         /\ r.guest_count <= t.seating_capacity
                         /\ ConfirmedRows(store, BodySlot(r)) # {}
                /\ resp'.code # 201 => store' = store
                /\ resp'.code = 400 => inflight' = inflight
       /\ \A h \in BagToSet(inflight') :
            (h.op = "create" /\ Started(h))
               => /\ h.req.fields_ok
                  /\ h.tbl.found /\ h.tbl.is_active
                  /\ h.req.guest_count <= h.tbl.seating_capacity
                  /\ store' = store]_vars

\* too many guests for a slot that a confirmed row already holds: the answer
\* is 400 CapacityExceeded
CreateCheckOrderWitness ==
    /\ resp.op = "create"
    /\ resp.code = 400
    /\ resp.error = "CapacityExceeded"
    /\ ConfirmedRows(store, BodySlot(resp.req)) # {}

\* too many guests for an inactive table: the answer is TableInactive
InactiveBeforeCapacityWitness ==
    /\ resp.op = "create"
    /\ resp.error = "TableInactive"
    /\ resp.req.guest_count > resp.lookup.table.seating_capacity

\* C12: cancelled rows never block a booking.  A create that passed the
\* schema and the table checks and reads the store while no confirmed row
\* holds its (table_id, reservation_date, slot_start_time) goes on to the
\* insert, whatever cancelled rows of the triple exist; the insert answers
\* 201 and appends a new confirmed row of the triple, leaving the rows
\* already stored as they are; and a 409 is only ever sent when a confirmed
\* row of the triple is stored.
CancelledNeverBlocks ==
    [][/\ \A h \in BagToSet(inflight) :
            (h.op = "create" /\ Stepped(h))
               => IF h.pc = "find"
                    THEN ConfirmedRows(store, BodySlot(h.req)) = {}
                           => /\ resp'.code = 0
                              /\ store' = store
                              /\ Started([h EXCEPT !.pc = "insert"])
                    ELSE /\ resp'.op = "create"
                         /\ resp'.code = 201
                         /\ resp'.req = h.req
                         /\ Len(store') = Len(store) + 1
                         /\ \A i \in 1..Len(store) : store'[i] = store[i]
                         /\ store'[Len(store')].status = "confirmed"
                         /\ RowSlot(store'[Len(store')]) = BodySlot(h.req)
                         /\ resp'.body = store'[Len(store')]
       /\ (resp'.op = "create" /\ resp'.code = 409)
            => ConfirmedRows(store, BodySlot(resp'.req)) # {}]_vars

\* a triple whose first reservation was cancelled has been booked again: the
\* 201 is on the wire and the new row is the triple's only confirmed one
RebookedWitness ==
    /\ resp.op = "create"
    /\ resp.code = 201
    /\ ConfirmedRows(store, BodySlot(resp.req)) = {Len(store)}
    /\ \E i \in 1..(Len(store) - 1) :
         /\ store[i].status = "cancelled"
         /\ RowSlot(store[i]) = BodySlot(resp.req)

\* the ids of the stored rows
StoredIds(rows) == {rows[i].id : i \in 1..Len(rows)}

\* C13: rows are changed by cancel only and never deleted.  In every step
\* the set of stored ids does not shrink and each stored row keeps its
\* place; a row differs after the step only when the step is the save of a
\* cancel of that row, answered 200, and then only in its status: id,
\* table_id, customer_name, guest_count, reservation_date, slot_start_time
\* and slot_end_time are as before, and so is every other row; list, get,
\* availability and every refused cancel leave the store as it is.
OnlyCancelMutates ==
    [][/\ StoredIds(store) \subseteq StoredIds(store')
       /\ Len(store') >= Len(store)
       /\ \A i \in 1..Len(store) :
            \/ store'[i] = store[i]
            \/ /\ resp'.op = "cancel"
               /\ resp'.code = 200
               /\ resp'.req.id = store[i].id
               /\ store[i].status = "confirmed"
               /\ store'[i].status = "cancelled"
               /\ store'[i].id = store[i].id
               /\ store'[i].table_id = store[i].table_id
               /\ store'[i].customer_name = store[i].customer_name
               /\ store'[i].guest_count = store[i].guest_count
               /\ store'[i].reservation_date = store[i].reservation_date
               /\ store'[i].slot_start_time = store[i].slot_start_time
               /\ store'[i].slot_end_time = store[i].slot_end_time
               /\ DOMAIN store'[i] = DOMAIN store[i]
       /\ (resp'.op = "cancel" /\ resp'.code = 200)
            => /\ Len(store') = Len(store)
               /\ \A j \in 1..Len(store) :
                    store[j].id # resp'.req.id => store'[j] = store[j]
       /\ (resp'.op = "cancel" /\ resp'.code # 200) => store' = store
       /\ resp'.op \in {"list", "get", "availability"} => store' = store]_vars

\* a cancel has been answered 200 while another row is stored and still
\* confirmed
OnlyCancelMutatesWitness ==
    /\ resp.op = "cancel"
    /\ resp.code = 200
    /\ Len(store) = 2
    /\ store[resp.req.id].status = "cancelled"
    /\ store[resp.req.id].customer_name \in Customers
    /\ \E j \in 1..Len(store) : j # resp.req.id /\ store[j].status = "confirmed"

\* the sort key of a row: seconds from 00:00 of day 0 to its date and start
SortKey(row) ==
    row.reservation_date * 86400 + row.slot_start_time[1] * 3600
        + row.slot_start_time[2] * 60 + row.slot_start_time[3]

\* the stored rows a list query with filters q selects
Selected(q) ==
    {i \in 1..Len(store) :
        /\ q.date # 0 => store[i].reservation_date = q.date
        /\ q.table_id # 0 => store[i].table_id = q.table_id
        /\ q.status # "" => store[i].status = q.status}

\* C14: a list answer holds the rows that match all the given filters, in
\* ascending order of (reservation_date, slot_start_time), cut to positions
\* (page - 1) * limit + 1 .. page * limit of that order: at most limit rows,
\* none past the last page; total is the number of all matching rows
\* whatever the page, and totalPages is ceil(total / limit).
ListRule ==
    (resp.op = "list" /\ resp.code = 200)
        => LET q      == resp.req
               rows   == resp.body.reservations
               sel    == Selected(q)
               total  == Cardinality(sel)
               offset == (q.page - 1) * q.limit
               rest   == IF total > offset THEN total - offset ELSE 0
           IN  /\ resp.body.total = total
               /\ resp.body.page = q.page
               /\ resp.body.totalPages * q.limit >= total
               /\ (resp.body.totalPages - 1) * q.limit < total \/ total = 0
               /\ total = 0 => resp.body.totalPages = 0
               /\ Len(rows) = IF rest < q.limit THEN rest ELSE q.limit
               /\ \A k \in 1..Len(rows) :
                    /\ rows[k].id \in sel
                    /\ rows[k] = store[rows[k].id]
                    \* the row may stand at position offset + k of the order
                    /\ Cardinality({i \in sel : SortKey(store[i]) < SortKey(rows[k])})
                          <= offset + k - 1
                    /\ Cardinality({i \in sel : SortKey(store[i]) <= SortKey(rows[k])})
                          >= offset + k
               /\ \A a, b \in 1..Len(rows) :
                    a < b => /\ rows[a].id # rows[b].id
                             /\ SortKey(rows[a]) <= SortKey(rows[b])

\* the second page of one row each: two rows match, the row stored first
\* sorts last and is the one on page 2
ListWitness ==
    /\ resp.op = "list"
    /\ resp.code = 200
    /\ resp.req.page = 2
    /\ resp.req.limit = 1
    /\ resp.body.total = 2
    /\ resp.body.totalPages = 2
    /\ Len(resp.body.reservations) = 1
    /\ resp.body.reservations[1].id = 1
    /\ SortKey(store[2]) < SortKey(store[1])

\* a filter leaves a stored row out: one of two rows is listed
ListFilterWitness ==
    /\ resp.op = "list"
    /\ resp.code = 200
    /\ resp.req.status = "confirmed"
    /\ Len(store) = 2
    /\ resp.body.total = 1
    /\ resp.body.totalPages = 1
    /\ Len(resp.body.reservations) = 1

\* C15: of the cancel requests on one reservation, interleaved in any way,
\* at most one is answered 200: a cancel whose save comes when the row is
\* already cancelled is answered 400 'already cancelled', so every 200 is
\* sent for a row that was still confirmed when the save ran.
AtMostOneCancelSucceeds ==
    [][/\ (resp'.op = "cancel" /\ resp'.code = 200)
            => store[resp'.req.id].status = "confirmed"
       /\ \A h \in BagToSet(inflight) :
            (h.op = "cancel" /\ Stepped(h)
               /\ store[h.req.id].status = "cancelled")
            => resp'.code = 400 /\ resp'.error = "AlreadyCancelled"]_vars

\* minutes from 00:00 of day 0 to the start of a row's window
WindowStart(row) ==
    row.reservation_date * 1440 + row.slot_start_time[1] * 60
        + row.slot_start_time[2]

\* the windows [s1, s1 + 2h) and [s2, s2 + 2h) have a minute in common
WindowsOverlap(s1, s2) == s1 < s2 + 120 /\ s2 < s1 + 120

\* C16: no two confirmed rows of one table and date have overlapping
\* 2-hour windows [slot_start_time, slot_start_time + 2h); and a slot that
\* an availability answer reports as available overlaps no confirmed row of
\* that table and date.
NoOverlappingWindows ==
    /\ \A i, j \in 1..Len(store) :
         (/\ i # j
          /\ store[i].status = "confirmed" /\ store[j].status = "confirmed"
          /\ store[i].table_id = store[j].table_id
          /\ store[i].reservation_date = store[j].reservation_date)
            => ~WindowsOverlap(WindowStart(store[i]), WindowStart(store[j]))
    /\ (resp.op = "availability" /\ resp.code = 200)
         => \A k \in 1..Len(resp.body) : \A i \in 1..Len(store) :
              (/\ resp.body[k].available
               /\ store[i].status = "confirmed"
               /\ store[i].table_id = resp.req.table_id
               /\ store[i].reservation_date = resp.req.date)
                 => ~WindowsOverlap(WindowStart(store[i]),
                                    resp.req.date * 1440
                                      + resp.body[k].start_time[1] * 60
                                      + resp.body[k].start_time[2])

\* two requests sent one after the other, the second only after the first
\* was answered, have left confirmed 18:00 and 19:00 rows of one table and
\* date: the overlap needs no race
SequentialOverlap ==
    /\ Len(store) = 2
    /\ inflight = EmptyBag
    /\ store[1].status = "confirmed" /\ store[2].status = "confirmed"
    /\ store[1].table_id = store[2].table_id
    /\ store[1].reservation_date = store[2].reservation_date
    /\ store[1].slot_start_time = <<18, 0, 0>>
    /\ store[2].slot_start_time = <<19, 0, 0>>

====
